---- MODULE Spec2Model ----
(***************************************************************************)
(* Contact form controller of the portfolio site, in its two variants:     *)
(*   "modal"  - src/unnamed/part_001 (fetch submission, modal feedback)    *)
(*   "banner" - src/unnamed/part_000 (native submission, banner feedback)  *)
(* and the article post-processor, src/src/lib/articleProcessor.ts.        *)
(* Strings are sequences of one-character strings, so that trim, the       *)
(* regular expressions and the phone clean-up are computed as the code     *)
(* computes them.                                                          *)
(***************************************************************************)
EXTENDS Integers, Sequences, FiniteSets, TLC

VARIABLES
    variant,               \* which script the page runs: "modal" or "banner"
    url,                   \* query parameters of the displayed URL
    fields,                \* .value of the seven form controls
    options,               \* option values of the country <select>
    phoneFieldInteracted,  \* let phoneFieldInteracted
    disabled,              \* submitButton.disabled
    label,                 \* submitButton.textContent
    emailErrorShown,       \* emailError.style.display = "block"
    phoneErrorShown,       \* phoneError.style.display = "block"
    geo,                   \* the ipapi.co lookup: "pending", "fulfilled"
                           \* or "rejected"
    inflight,              \* submissions issued and not yet resolved
    successModal,          \* [display, opaque] of #success-modal
    errorModal,            \* [display, opaque] of #error-modal
    bannerShown,           \* #form-message is displayed (banner variant)
    timers,                \* pending setTimeout callbacks, in firing order
    lastOp,                \* the handler that ran last, as far as the
                           \* properties tell handlers apart
    call,                  \* one call of a validator: its arguments and,
                           \* once it has returned, its result
    entry,                 \* processArticleContent: its argument
    pc,                    \* processArticleContent: the statement reached
    htmlContent,           \* let htmlContent
    body,                  \* dom.window.document.body.childNodes
    allElements,           \* what is left of allElements for the loop
    currentWrapper,        \* let currentWrapper (the wrapper's identity)
    updatedHtml            \* let updatedHtml

formVars == <<variant, url, fields, options, phoneFieldInteracted, disabled,
              label, emailErrorShown, phoneErrorShown, geo, inflight,
              successModal, errorModal, bannerShown, timers, lastOp>>

articleVars == <<entry, pc, htmlContent, body, allElements, currentWrapper,
                 updatedHtml>>

vars == <<formVars, call, articleVars>>

----------------------------------------------------------------------------
(* Bounds of the model *)

\* submissions that may be outstanding at once, under Spec
MaxInFlight == 1
\* setTimeout callbacks that may be pending at once, under Spec
MaxTimers == 2
\* the same two bounds under SpecNotify
MaxInFlightNotify == 2
MaxTimersNotify == 4
\* digits in each of the two runs of a phone value, under SpecValidators
MaxDigitRun == 9
\* characters of an email value, under SpecValidators
MaxEmailLen == 6
\* blocks of an article body, under SpecArticle
MaxBlocks == 3

----------------------------------------------------------------------------
(* Program constants *)

MinPhoneDigits == 7
MaxPhoneDigits == 15
ShowDelay == 10
HideDelay == 300
SuccessDelay == 3000
ErrorDelay == 5000

OriginalButtonText == "Let's talk"
SendingText == "Sending..."

----------------------------------------------------------------------------
(* Strings *)

Digits == {"0", "1", "2", "3", "4", "5", "6", "7", "8", "9"}
WhiteSpace == {" ", "\t", "\n"}

RECURSIVE TrimStart(_)
TrimStart(s) ==
    IF s # <<>> /\ Head(s) \in WhiteSpace THEN TrimStart(Tail(s)) ELSE s

RECURSIVE TrimEnd(_)
TrimEnd(s) ==
    IF s # <<>> /\ s[Len(s)] \in WhiteSpace
    THEN TrimEnd(SubSeq(s, 1, Len(s) - 1))
    ELSE s

\* String.prototype.trim
Trim(s) == TrimEnd(TrimStart(s))

\* s.replace(/[chars]/g, "")
RECURSIVE RemoveChars(_, _)
RemoveChars(s, chars) ==
    IF s = <<>> THEN <<>>
    ELSE IF Head(s) \in chars THEN RemoveChars(Tail(s), chars)
    ELSE <<Head(s)>> \o RemoveChars(Tail(s), chars)

\* s.replace(/[^chars]/g, "")
RECURSIVE KeepChars(_, _)
KeepChars(s, chars) ==
    IF s = <<>> THEN <<>>
    ELSE IF Head(s) \in chars THEN <<Head(s)>> \o KeepChars(Tail(s), chars)
    ELSE KeepChars(Tail(s), chars)

AllDigits(s) == \A k \in 1..Len(s) : s[k] \in Digits

\* /^\d{7,15}$/.test(s)
IsPhoneDigits(s) ==
    AllDigits(s) /\ Len(s) >= MinPhoneDigits /\ Len(s) <= MaxPhoneDigits

StartsWithPlus(s) == s # <<>> /\ Head(s) = "+"

----------------------------------------------------------------------------
(* Validators *)

\* the email test applied to the value as typed, without trim()
isValidEmailUntrimmed(email) ==
    LET s == email
    IN  \E i \in 1..Len(s), j \in 1..Len(s) :
            /\ s[i] = "@"
            /\ s[j] = "."
            /\ 1 < i
            /\ i + 1 < j
            /\ j < Len(s)
            /\ \A k \in 1..Len(s) :
                   k # i => (s[k] \notin WhiteSpace /\ s[k] # "@")

\* /^[^\s@]+@[^\s@]+\.[^\s@]+$/.test(email.trim())
isValidEmail(email) ==
    LET s == Trim(email)
    IN  \E i \in 1..Len(s), j \in 1..Len(s) :
            /\ s[i] = "@"
            /\ s[j] = "."
            /\ 1 < i
            /\ i + 1 < j
            /\ j < Len(s)
            /\ \A k \in 1..Len(s) :
                   k # i => (s[k] \notin WhiteSpace /\ s[k] # "@")

\* the phone test with the upper length taken exclusive in the digits branch
isValidPhoneNumberShort(phone, countryCode) ==
    LET cleaned == RemoveChars(Trim(phone), WhiteSpace \cup {"-", "(", ")"})
    IN  IF StartsWithPlus(cleaned)
        THEN IsPhoneDigits(Tail(cleaned))
        ELSE IF cleaned # <<>> /\ AllDigits(cleaned)
        THEN Len(cleaned) >= MinPhoneDigits /\ Len(cleaned) < MaxPhoneDigits
        ELSE IF countryCode # <<>> /\ Len(cleaned) >= MinPhoneDigits
        THEN LET fullNumber == KeepChars(countryCode, Digits \cup {"+"}) \o cleaned
                 stripped == IF StartsWithPlus(fullNumber)
                             THEN Tail(fullNumber) ELSE fullNumber
             IN  IF StartsWithPlus(stripped)
                 THEN IsPhoneDigits(Tail(stripped))
                 ELSE IsPhoneDigits(stripped)
        ELSE FALSE

\* s.replace(/^\++/, "")
RECURSIVE StripPluses(_)
StripPluses(s) == IF StartsWithPlus(s) THEN StripPluses(Tail(s)) ELSE s

\* the phone test stripping every leading "+" instead of one
isValidPhoneNumberLenient(phone, countryCode) ==
    LET cleaned == RemoveChars(Trim(phone), WhiteSpace \cup {"-", "(", ")"})
    IN  IF StartsWithPlus(cleaned)
        THEN IsPhoneDigits(StripPluses(cleaned))
        ELSE IF cleaned # <<>> /\ AllDigits(cleaned)
        THEN Len(cleaned) >= MinPhoneDigits /\ Len(cleaned) <= MaxPhoneDigits
        ELSE IF countryCode # <<>> /\ Len(cleaned) >= MinPhoneDigits
        THEN LET fullNumber == KeepChars(countryCode, Digits \cup {"+"}) \o cleaned
                 stripped == IF StartsWithPlus(fullNumber)
                             THEN Tail(fullNumber) ELSE fullNumber
             IN  IF StartsWithPlus(stripped)
                 THEN IsPhoneDigits(Tail(stripped))
                 ELSE IsPhoneDigits(stripped)
        ELSE FALSE

\* the phone test with a hint branch that drops what is not a digit from the
\* cleaned value before it prepends the hint
isValidPhoneNumberHinted(phone, countryCode) ==
    LET cleaned == RemoveChars(Trim(phone), WhiteSpace \cup {"-", "(", ")"})
    IN  IF StartsWithPlus(cleaned)
        THEN IsPhoneDigits(Tail(cleaned))
        ELSE IF cleaned # <<>> /\ AllDigits(cleaned)
        THEN Len(cleaned) >= MinPhoneDigits /\ Len(cleaned) <= MaxPhoneDigits
        ELSE IF countryCode # <<>> /\ Len(cleaned) >= MinPhoneDigits
        THEN LET fullNumber == KeepChars(countryCode, Digits \cup {"+"})
                                   \o KeepChars(cleaned, Digits)
                 stripped == IF StartsWithPlus(fullNumber)
                             THEN Tail(fullNumber) ELSE fullNumber
             IN  IF StartsWithPlus(stripped)
                 THEN IsPhoneDigits(Tail(stripped))
                 ELSE IsPhoneDigits(stripped)
        ELSE FALSE

\* phone.trim().replace(/[\s\-\(\)]/g, ""), then the three branches
isValidPhoneNumber(phone, countryCode) ==
    LET cleaned == RemoveChars(Trim(phone), WhiteSpace \cup {"-", "(", ")"})
    IN  IF StartsWithPlus(cleaned)
        THEN IsPhoneDigits(Tail(cleaned))
        ELSE IF cleaned # <<>> /\ AllDigits(cleaned)
        THEN Len(cleaned) >= MinPhoneDigits /\ Len(cleaned) <= MaxPhoneDigits
        ELSE IF countryCode # <<>> /\ Len(cleaned) >= MinPhoneDigits
        THEN LET fullNumber == KeepChars(countryCode, Digits \cup {"+"}) \o cleaned
                 stripped == IF StartsWithPlus(fullNumber)
                             THEN Tail(fullNumber) ELSE fullNumber
             IN  IF StartsWithPlus(stripped)
                 THEN IsPhoneDigits(Tail(stripped))
                 ELSE IsPhoneDigits(stripped)
        ELSE FALSE

----------------------------------------------------------------------------
(* Values the user, the geolocation service and the page supply *)

FieldNames ==
    {"firstName", "lastName", "company", "email", "country", "phone", "message"}

Empty == <<>>
Blank == <<" ">>
SomeText == <<"J", "o">>
MoreText == <<"J", "o", "e">>
EmailBad == <<"a", "@", "b">>
EmailGood == <<" ", "a", "@", "b", ".", "c", "o">>
CallingCode == <<"+", "2", "5", "4">>
PhoneGood == <<"+", "2", "5", "4", " ", "7", "1", "2", "-", "3", "4", "5">>
CountryUS == <<"U", "S">>
CountryKE == <<"K", "E">>

\* what the user can put into a text control
TypedValues(n) ==
    IF n = "email" THEN {Empty, Blank, EmailBad, EmailGood}
    ELSE IF n = "phone" THEN {Empty, Blank, CallingCode, PhoneGood}
    ELSE IF n = "message" THEN {Empty, Blank, SomeText}
    ELSE {Empty, SomeText}

\* bodies of the ipapi.co response; Empty stands for a missing field
GeoResponses ==
    { [country_code |-> CountryKE, country_calling_code |-> CallingCode],
      [country_code |-> CountryUS, country_calling_code |-> Empty],
      [country_code |-> Empty, country_calling_code |-> CallingCode] }

\* the page's markup: the controls' default values and the <select>'s options
DefaultFields == [n \in FieldNames |-> Empty]
DefaultOptions == <<Empty, CountryUS>>

UrlParams == [success : BOOLEAN, error : BOOLEAN]
NoParams == [success |-> FALSE, error |-> FALSE]

----------------------------------------------------------------------------
(* checkFormValidity *)

allFieldsFilled(f) == \A n \in FieldNames : Trim(f[n]) # <<>>

formIsValid(f) ==
    /\ allFieldsFilled(f)
    /\ isValidEmail(Trim(f["email"]))
    /\ isValidPhoneNumber(Trim(f["phone"]), Trim(f["country"]))

\* checkFormValidity showing the phone error whether or not the phone field
\* was touched
checkFormValidityUngated(f, interacted) ==
    LET email == Trim(f["email"])
        country == Trim(f["country"])
        phone == Trim(f["phone"])
        emailValid == isValidEmail(email)
        phoneValid == isValidPhoneNumber(phone, country)
    IN  [ disabled |-> ~(allFieldsFilled(f) /\ emailValid /\ phoneValid),
          emailError |-> email # <<>> /\ ~emailValid,
          phoneError |-> phone # <<>> /\ ~phoneValid ]

\* checkFormValidity showing the email error for an empty email field too
checkFormValidityEmailEager(f, interacted) ==
    LET email == Trim(f["email"])
        country == Trim(f["country"])
        phone == Trim(f["phone"])
        emailValid == isValidEmail(email)
        phoneValid == isValidPhoneNumber(phone, country)
    IN  [ disabled |-> ~(allFieldsFilled(f) /\ emailValid /\ phoneValid),
          emailError |-> ~emailValid,
          phoneError |-> phone # <<>> /\ ~phoneValid /\ interacted ]

\* what one call of checkFormValidity writes, from the controls' values f
\* and the flag phoneFieldInteracted
checkFormValidity(f, interacted) ==
    LET email == Trim(f["email"])
        country == Trim(f["country"])
        phone == Trim(f["phone"])
        emailValid == isValidEmail(email)
        phoneValid == isValidPhoneNumber(phone, country)
    IN  [ disabled |-> ~(allFieldsFilled(f) /\ emailValid /\ phoneValid),
          emailError |-> email # <<>> /\ ~emailValid,
          phoneError |-> phone # <<>> /\ ~phoneValid /\ interacted ]

----------------------------------------------------------------------------
(* setTimeout *)

TimerKinds ==
    {"showSuccess", "showError", "hideSuccess", "hideError",
     "dismissSuccess", "dismissError", "urlSuccess", "urlError"}

\* every notification dismissed after the same delay
DelayUniform(kind) ==
    IF kind \in {"showSuccess", "showError"} THEN ShowDelay
    ELSE IF kind \in {"hideSuccess", "hideError"} THEN HideDelay
    ELSE ErrorDelay

Delay(kind) ==
    IF kind \in {"showSuccess", "showError"} THEN ShowDelay
    ELSE IF kind \in {"hideSuccess", "hideError"} THEN HideDelay
    ELSE IF kind \in {"dismissSuccess", "urlSuccess"} THEN SuccessDelay
    ELSE ErrorDelay

InsertAt(q, p, kind) == SubSeq(q, 1, p - 1) \o <<kind>> \o SubSeq(q, p, Len(q))

\* The queues that setTimeout(kind, Delay(kind)) can leave: the new callback
\* fires after every pending one whose delay is no longer than its own (set
\* no later, due no later), and before or after a pending one with a longer
\* delay, depending on how long ago that one was set.
SetTimeout(q, kind) ==
    { InsertAt(q, p, kind) :
        p \in { p \in 1..(Len(q) + 1) :
                  \A k \in 1..Len(q) : Delay(q[k]) <= Delay(kind) => k < p } }

\* setTimeout when every pending callback was set in this same handler run:
\* firing order is order of delay, then order of the calls
SetTimeoutNow(q, kind) ==
    LET p == 1 + Cardinality({k \in 1..Len(q) : Delay(q[k]) <= Delay(kind)})
    IN  InsertAt(q, p, kind)

----------------------------------------------------------------------------
(* The modals *)

HiddenModal == [display |-> "none", opaque |-> FALSE]

\* showSuccessModal / showErrorModal, up to the setTimeout
showModal(m) == [m EXCEPT !.display = "flex"]

\* hideSuccessModal / hideErrorModal, up to the setTimeout
hideModal(m) == [m EXCEPT !.opaque = FALSE]

\* the callback of show's setTimeout
showModalTimeout(m) == [m EXCEPT !.opaque = TRUE]

\* the callback of hide's setTimeout
hideModalTimeout(m) == [m EXCEPT !.display = "none"]

----------------------------------------------------------------------------
(* The page runs the form script only: no validator is called on its own    *)
(* and no article is processed                                              *)

NoCall ==
    [fn |-> "none", value |-> <<>>, hint |-> <<>>, done |-> FALSE,
     result |-> FALSE]

NoEntry == [hasBody |-> FALSE, body |-> <<>>]

NoArticle ==
    /\ entry = NoEntry
    /\ pc = "idle"
    /\ htmlContent = <<>>
    /\ body = <<>>
    /\ allElements = <<>>
    /\ currentWrapper = 0
    /\ updatedHtml = <<>>

FormOnly == call = NoCall /\ NoArticle

FormStep == UNCHANGED <<call, articleVars>>

----------------------------------------------------------------------------
(* Page load: the DOMContentLoaded handler *)

\* window.history.replaceState at load (banner variant): the new URL is built
\* from urlParams.toString(), and urlParams is the parsed query, unchanged
urlAfterLoad(v, u) ==
    IF v = "banner" /\ (u.success \/ u.error)
    THEN [success |-> u.success, error |-> u.error]
    ELSE u

timersAfterLoad(v, u) ==
    LET q1 == IF u.success /\ v = "modal"
              THEN SetTimeoutNow(<<>>, "showSuccess") ELSE <<>>
        q2 == IF u.success THEN SetTimeoutNow(q1, "urlSuccess") ELSE q1
        q3 == IF u.error /\ v = "modal"
              THEN SetTimeoutNow(q2, "showError") ELSE q2
    IN  IF u.error THEN SetTimeoutNow(q3, "urlError") ELSE q3

\* the state the handler leaves when the page is loaded with query u
LoadState(v, u) ==
    LET chk == checkFormValidity(DefaultFields, FALSE)
    IN  [ variant |-> v,
          url |-> urlAfterLoad(v, u),
          fields |-> DefaultFields,
          options |-> DefaultOptions,
          phoneFieldInteracted |-> FALSE,
          disabled |-> chk.disabled,
          label |-> OriginalButtonText,
          emailErrorShown |-> chk.emailError,
          phoneErrorShown |-> chk.phoneError,
          geo |-> "pending",
          inflight |-> 0,
          successModal |-> IF v = "modal" /\ u.success
                           THEN showModal(HiddenModal) ELSE HiddenModal,
          errorModal |-> IF v = "modal" /\ u.error
                         THEN showModal(HiddenModal) ELSE HiddenModal,
          bannerShown |-> v = "banner" /\ (u.success \/ u.error),
          timers |-> timersAfterLoad(v, u) ]

IsState(s) ==
    /\ variant = s.variant
    /\ url = s.url
    /\ fields = s.fields
    /\ options = s.options
    /\ phoneFieldInteracted = s.phoneFieldInteracted
    /\ disabled = s.disabled
    /\ label = s.label
    /\ emailErrorShown = s.emailErrorShown
    /\ phoneErrorShown = s.phoneErrorShown
    /\ geo = s.geo
    /\ inflight = s.inflight
    /\ successModal = s.successModal
    /\ errorModal = s.errorModal
    /\ bannerShown = s.bannerShown
    /\ timers = s.timers

\* the page is loaded in variant v with one of the queries us
InitWith(v, us) ==
    /\ \E u \in us : IsState(LoadState(v, u))
    /\ lastOp = "other"

Becomes(s) ==
    /\ variant' = s.variant
    /\ url' = s.url
    /\ fields' = s.fields
    /\ options' = s.options
    /\ phoneFieldInteracted' = s.phoneFieldInteracted
    /\ disabled' = s.disabled
    /\ label' = s.label
    /\ emailErrorShown' = s.emailErrorShown
    /\ phoneErrorShown' = s.phoneErrorShown
    /\ geo' = s.geo
    /\ inflight' = s.inflight
    /\ successModal' = s.successModal
    /\ errorModal' = s.errorModal
    /\ bannerShown' = s.bannerShown
    /\ timers' = s.timers

\* the user reloads the page: the handler runs again on the displayed URL
Reload ==
    /\ Becomes(LoadState(variant, url))
    /\ lastOp' = "other"

----------------------------------------------------------------------------
(* Field events *)

Wrote(chk) ==
    /\ disabled' = chk.disabled
    /\ emailErrorShown' = chk.emailError
    /\ phoneErrorShown' = chk.phoneError

\* the "input" listeners without the label-restoring one
InputEventNoRestore(n, v) ==
    LET f == [fields EXCEPT ![n] = v]
    IN  /\ fields' = f
        /\ phoneFieldInteracted' = (phoneFieldInteracted \/ n = "phone")
        /\ Wrote(checkFormValidity(f, phoneFieldInteracted))
        /\ lastOp' = "input"
        /\ UNCHANGED <<variant, url, options, label, geo, inflight,
                       successModal, errorModal, bannerShown, timers>>

\* The user edits control n to v: the "input" listeners run in the order of
\* their registration: checkFormValidity, the phone field's flag setter, the
\* label-restoring listener.
InputEvent(n, v) ==
    LET f == [fields EXCEPT ![n] = v]
        interacted == phoneFieldInteracted \/ n = "phone"
    IN  /\ fields' = f
        /\ phoneFieldInteracted' = interacted
        /\ IF label = SendingText
           THEN /\ label' = OriginalButtonText
                /\ Wrote(checkFormValidity(f, interacted))
           ELSE /\ label' = label
                /\ Wrote(checkFormValidity(f, phoneFieldInteracted))
        /\ lastOp' = "input"
        /\ UNCHANGED <<variant, url, options, geo, inflight,
                       successModal, errorModal, bannerShown, timers>>

\* "change" on control n
ChangeEvent(n) ==
    /\ Wrote(checkFormValidity(fields, phoneFieldInteracted))
    /\ lastOp' = "change"
    /\ UNCHANGED <<variant, url, fields, options, phoneFieldInteracted, label,
                   geo, inflight, successModal, errorModal,
                   bannerShown, timers>>

\* "blur" on the email or the phone control
BlurEvent(n) ==
    /\ n \in {"email", "phone"}
    /\ Wrote(checkFormValidity(fields, phoneFieldInteracted))
    /\ lastOp' = "blur"
    /\ UNCHANGED <<variant, url, fields, options, phoneFieldInteracted, label,
                   geo, inflight, successModal, errorModal,
                   bannerShown, timers>>

\* "focus" on the phone control
FocusPhone ==
    /\ phoneFieldInteracted' = TRUE
    /\ lastOp' = "other"
    /\ UNCHANGED <<variant, url, fields, options, disabled, label,
                   emailErrorShown, phoneErrorShown, geo, inflight,
                   successModal, errorModal, bannerShown, timers>>

----------------------------------------------------------------------------
(* Geolocation prefill *)

HasOption(opts, c) == \E k \in 1..Len(opts) : opts[k] = c

\* the prefill without its closing checkFormValidity()
GeoSuccessNoCheck(data) ==
    LET opts == IF data.country_code # Empty /\ ~HasOption(options, data.country_code)
                THEN Append(options, data.country_code) ELSE options
        f1 == IF data.country_code # Empty
              THEN [fields EXCEPT !["country"] = data.country_code] ELSE fields
        f2 == IF data.country_calling_code # Empty
              THEN [f1 EXCEPT !["phone"] = data.country_calling_code] ELSE f1
    IN  /\ geo = "pending"
        /\ geo' = "fulfilled"
        /\ options' = opts
        /\ fields' = f2
        /\ lastOp' = "geoSuccess"
        /\ UNCHANGED <<variant, url, phoneFieldInteracted, disabled, label,
                       emailErrorShown, phoneErrorShown, inflight,
                       successModal, errorModal, bannerShown, timers>>

\* the prefill appending the option whether or not the select has it
GeoSuccessAlwaysAppends(data) ==
    LET opts == IF data.country_code # Empty
                THEN Append(options, data.country_code) ELSE options
        f1 == IF data.country_code # Empty
              THEN [fields EXCEPT !["country"] = data.country_code] ELSE fields
        f2 == IF data.country_calling_code # Empty
              THEN [f1 EXCEPT !["phone"] = data.country_calling_code] ELSE f1
    IN  /\ geo = "pending"
        /\ geo' = "fulfilled"
        /\ options' = opts
        /\ fields' = f2
        /\ Wrote(checkFormValidity(f2, phoneFieldInteracted))
        /\ lastOp' = "geoSuccess"
        /\ UNCHANGED <<variant, url, phoneFieldInteracted, label, inflight,
                       successModal, errorModal, bannerShown, timers>>

\* .then((data) => ...)
GeoSuccess(data) ==
    LET opts == IF data.country_code # Empty /\ ~HasOption(options, data.country_code)
                THEN Append(options, data.country_code) ELSE options
        f1 == IF data.country_code # Empty
              THEN [fields EXCEPT !["country"] = data.country_code] ELSE fields
        f2 == IF data.country_calling_code # Empty
              THEN [f1 EXCEPT !["phone"] = data.country_calling_code] ELSE f1
    IN  /\ geo = "pending"
        /\ geo' = "fulfilled"
        /\ options' = opts
        /\ fields' = f2
        /\ Wrote(checkFormValidity(f2, phoneFieldInteracted))
        /\ lastOp' = "geoSuccess"
        /\ UNCHANGED <<variant, url, phoneFieldInteracted, label, inflight, successModal, errorModal, bannerShown, timers>>

\* the catch handler without its checkFormValidity()
GeoFailureNoCheck ==
    /\ geo = "pending"
    /\ geo' = "rejected"
    /\ lastOp' = "geoFailure"
    /\ UNCHANGED <<variant, url, fields, options, phoneFieldInteracted,
                   disabled, label, emailErrorShown, phoneErrorShown,
                   inflight, successModal, errorModal, bannerShown, timers>>

\* .catch((error) => ...): the fetch rejected, or response.json() did
GeoFailure ==
    /\ geo = "pending"
    /\ geo' = "rejected"
    /\ Wrote(checkFormValidity(fields, phoneFieldInteracted))
    /\ lastOp' = "geoFailure"
    /\ UNCHANGED <<variant, url, fields, options, phoneFieldInteracted, label,
                   inflight, successModal, errorModal, bannerShown,
                   timers>>

----------------------------------------------------------------------------
(* Submission *)

\* the "submit" listener trusting the button's state as it finds it, without
\* calling checkFormValidity() first
SubmitEventStale ==
    /\ IF disabled
       THEN /\ lastOp' = "submitBlocked"
            /\ UNCHANGED <<disabled, label, inflight>>
       ELSE /\ disabled' = TRUE
            /\ label' = SendingText
            /\ inflight' = IF variant = "banner" THEN 1 ELSE inflight + 1
            /\ lastOp' = "submitSent"
    /\ UNCHANGED <<variant, url, fields, options, phoneFieldInteracted,
                   emailErrorShown, phoneErrorShown, geo, successModal,
                   errorModal, bannerShown, timers>>

\* The "submit" listener. Modal variant: the request is a fetch whose
\* continuation runs later. Banner variant: the browser's own submission
\* goes on unless the listener prevents it, and a new submission replaces a
\* navigation that is still pending.
SubmitEvent ==
    LET chk == checkFormValidity(fields, phoneFieldInteracted)
    IN  /\ emailErrorShown' = chk.emailError
        /\ phoneErrorShown' = chk.phoneError
        /\ IF chk.disabled
           THEN /\ disabled' = chk.disabled
                /\ lastOp' = "submitBlocked"
                /\ UNCHANGED <<label, inflight>>
           ELSE /\ disabled' = TRUE
                /\ label' = SendingText
                /\ inflight' = IF variant = "banner" THEN 1 ELSE inflight + 1
                /\ lastOp' = "submitSent"
        /\ UNCHANGED <<variant, url, fields, options, phoneFieldInteracted,
                       geo, successModal, errorModal, bannerShown, timers>>

\* the 2xx branch without the restoring of the button's label
ResponseOkKeepsLabel ==
    /\ variant = "modal"
    /\ inflight > 0
    /\ inflight' = inflight - 1
    /\ fields' = DefaultFields
    /\ LET chk == checkFormValidity(DefaultFields, phoneFieldInteracted)
       IN  /\ emailErrorShown' = chk.emailError
           /\ phoneErrorShown' = chk.phoneError
    /\ disabled' = FALSE
    /\ successModal' = showModal(successModal)
    /\ \E q \in SetTimeout(timers, "showSuccess") :
           timers' \in SetTimeout(q, "dismissSuccess")
    /\ lastOp' = "responseOk"
    /\ UNCHANGED <<variant, url, options, phoneFieldInteracted, label, geo,
                   errorModal, bannerShown>>

\* if (response.ok)
ResponseOk ==
    /\ variant = "modal"
    /\ inflight > 0
    /\ inflight' = inflight - 1
    /\ fields' = DefaultFields
    /\ LET chk == checkFormValidity(DefaultFields, phoneFieldInteracted)
       IN  /\ emailErrorShown' = chk.emailError
           /\ phoneErrorShown' = chk.phoneError
    /\ disabled' = FALSE
    /\ label' = OriginalButtonText
    /\ successModal' = showModal(successModal)
    /\ \E q \in SetTimeout(timers, "showSuccess") :
           timers' \in SetTimeout(q, "dismissSuccess")
    /\ lastOp' = "responseOk"
    /\ UNCHANGED <<variant, url, options, phoneFieldInteracted, geo,
                   errorModal, bannerShown>>

\* the failure handling without re-enabling the button
SubmissionFailedStaysDisabled(op) ==
    /\ variant = "modal"
    /\ inflight > 0
    /\ inflight' = inflight - 1
    /\ label' = OriginalButtonText
    /\ errorModal' = showModal(errorModal)
    /\ \E q \in SetTimeout(timers, "showError") :
           timers' \in SetTimeout(q, "dismissError")
    /\ lastOp' = op
    /\ UNCHANGED <<variant, url, fields, options, phoneFieldInteracted,
                   disabled, emailErrorShown, phoneErrorShown, geo,
                   successModal, bannerShown>>

\* the failure handling sending the request again by itself
SubmissionFailedRetries(op) ==
    /\ variant = "modal"
    /\ inflight > 0
    /\ inflight' = inflight
    /\ disabled' = FALSE
    /\ label' = OriginalButtonText
    /\ errorModal' = showModal(errorModal)
    /\ \E q \in SetTimeout(timers, "showError") :
           timers' \in SetTimeout(q, "dismissError")
    /\ lastOp' = op
    /\ UNCHANGED <<variant, url, fields, options, phoneFieldInteracted,
                   emailErrorShown, phoneErrorShown, geo, successModal,
                   bannerShown>>

\* what the else branch and the catch block both do
SubmissionFailed(op) ==
    /\ variant = "modal"
    /\ inflight > 0
    /\ inflight' = inflight - 1
    /\ disabled' = FALSE
    /\ label' = OriginalButtonText
    /\ errorModal' = showModal(errorModal)
    /\ \E q \in SetTimeout(timers, "showError") :
           timers' \in SetTimeout(q, "dismissError")
    /\ lastOp' = op
    /\ UNCHANGED <<variant, url, fields, options, phoneFieldInteracted,
                   emailErrorShown, phoneErrorShown, geo, successModal,
                   bannerShown>>

\* else: the response is not 2xx
ResponseNotOk == SubmissionFailed("responseNotOk")

\* catch (error): the fetch rejected
ResponseException == SubmissionFailed("responseException")

\* banner variant: the pending navigation completes and the server's answer
\* is a page whose query is u
NativeNavigate(u) ==
    /\ variant = "banner"
    /\ inflight > 0
    /\ Becomes(LoadState("banner", u))
    /\ lastOp' = "other"

----------------------------------------------------------------------------
(* Closing a modal, and the timers *)

\* click on the close button or on the backdrop of the success modal
CloseSuccess ==
    /\ variant = "modal"
    /\ successModal.display = "flex"
    /\ successModal' = hideModal(successModal)
    /\ timers' \in SetTimeout(timers, "hideSuccess")
    /\ lastOp' = "closeSuccess"
    /\ UNCHANGED <<variant, url, fields, options, phoneFieldInteracted,
                   disabled, label, emailErrorShown, phoneErrorShown, geo,
                   inflight, errorModal, bannerShown>>

\* click on the close button or on the backdrop of the error modal
CloseError ==
    /\ variant = "modal"
    /\ errorModal.display = "flex"
    /\ errorModal' = hideModal(errorModal)
    /\ timers' \in SetTimeout(timers, "hideError")
    /\ lastOp' = "closeError"
    /\ UNCHANGED <<variant, url, fields, options, phoneFieldInteracted,
                   disabled, label, emailErrorShown, phoneErrorShown, geo,
                   inflight, successModal, bannerShown>>

Due(kind) == timers # <<>> /\ Head(timers) = kind

FormUnchanged ==
    UNCHANGED <<variant, fields, options, phoneFieldInteracted, disabled,
                label, emailErrorShown, phoneErrorShown, geo, inflight>>

\* the 10 ms callbacks of showSuccessModal and showErrorModal
TimerShowSuccess ==
    /\ Due("showSuccess")
    /\ successModal' = showModalTimeout(successModal)
    /\ timers' = Tail(timers)
    /\ lastOp' = "timer"
    /\ FormUnchanged
    /\ UNCHANGED <<url, errorModal, bannerShown>>

TimerShowError ==
    /\ Due("showError")
    /\ errorModal' = showModalTimeout(errorModal)
    /\ timers' = Tail(timers)
    /\ lastOp' = "timer"
    /\ FormUnchanged
    /\ UNCHANGED <<url, successModal, bannerShown>>

\* the 300 ms callbacks of hideSuccessModal and hideErrorModal
TimerHideSuccess ==
    /\ Due("hideSuccess")
    /\ successModal' = hideModalTimeout(successModal)
    /\ timers' = Tail(timers)
    /\ lastOp' = "timer"
    /\ FormUnchanged
    /\ UNCHANGED <<url, errorModal, bannerShown>>

TimerHideError ==
    /\ Due("hideError")
    /\ errorModal' = hideModalTimeout(errorModal)
    /\ timers' = Tail(timers)
    /\ lastOp' = "timer"
    /\ FormUnchanged
    /\ UNCHANGED <<url, successModal, bannerShown>>

\* the auto-dismiss callback fading the modal out without the 300 ms
\* callback that takes it off the page
TimerDismissSuccessFadeOnly ==
    /\ Due("dismissSuccess")
    /\ successModal' = hideModal(successModal)
    /\ timers' = Tail(timers)
    /\ lastOp' = "timer"
    /\ FormUnchanged
    /\ UNCHANGED <<url, errorModal, bannerShown>>

\* the auto-dismiss callbacks set after a response
TimerDismissSuccess ==
    /\ Due("dismissSuccess")
    /\ successModal' = hideModal(successModal)
    /\ timers' \in SetTimeout(Tail(timers), "hideSuccess")
    /\ lastOp' = "timer"
    /\ FormUnchanged
    /\ UNCHANGED <<url, errorModal, bannerShown>>

TimerDismissError ==
    /\ Due("dismissError")
    /\ errorModal' = hideModal(errorModal)
    /\ timers' \in SetTimeout(Tail(timers), "hideError")
    /\ lastOp' = "timer"
    /\ FormUnchanged
    /\ UNCHANGED <<url, successModal, bannerShown>>

\* the callbacks set at load for ?success=true
TimerUrlSuccess ==
    /\ Due("urlSuccess")
    /\ fields' = DefaultFields
    /\ Wrote(checkFormValidity(DefaultFields, phoneFieldInteracted))
    /\ IF variant = "modal"
       THEN /\ successModal' = hideModal(successModal)
            /\ timers' \in SetTimeout(Tail(timers), "hideSuccess")
            /\ UNCHANGED bannerShown
       ELSE /\ bannerShown' = FALSE
            /\ timers' = Tail(timers)
            /\ UNCHANGED successModal
    /\ url' = NoParams
    /\ lastOp' = "timer"
    /\ UNCHANGED <<variant, options, phoneFieldInteracted, label, geo,
                   inflight, errorModal>>

\* the callbacks set at load for ?error=true
TimerUrlError ==
    /\ Due("urlError")
    /\ IF variant = "modal"
       THEN /\ errorModal' = hideModal(errorModal)
            /\ timers' \in SetTimeout(Tail(timers), "hideError")
            /\ UNCHANGED bannerShown
       ELSE /\ bannerShown' = FALSE
            /\ timers' = Tail(timers)
            /\ UNCHANGED errorModal
    /\ url' = NoParams
    /\ lastOp' = "timer"
    /\ FormUnchanged
    /\ UNCHANGED successModal

Timers ==
    \/ TimerShowSuccess /\ FormStep
    \/ TimerShowError /\ FormStep
    \/ TimerHideSuccess /\ FormStep
    \/ TimerHideError /\ FormStep
    \/ TimerDismissSuccess /\ FormStep
    \/ TimerDismissError /\ FormStep
    \/ TimerUrlSuccess /\ FormStep
    \/ TimerUrlError /\ FormStep

----------------------------------------------------------------------------
(* The form: every edit, the geolocation lookup, submission and its outcome *)

Next ==
    \/ /\ \E n \in FieldNames \ {"country"} : \E v \in TypedValues(n) :
              v # fields[n] /\ InputEvent(n, v)
       /\ FormStep
    \/ /\ \E k \in 1..Len(options) :
              options[k] # fields["country"] /\ InputEvent("country", options[k])
       /\ FormStep
    \/ (\E n \in {"message"} : ChangeEvent(n)) /\ FormStep
    \/ (\E n \in {"phone"} : BlurEvent(n)) /\ FormStep
    \/ FocusPhone /\ FormStep
    \/ (\E data \in GeoResponses : GeoSuccess(data)) /\ FormStep
    \/ GeoFailure /\ FormStep
    \/ /\ variant = "modal" /\ formIsValid(fields) => inflight < MaxInFlight
       /\ SubmitEvent
       /\ FormStep
    \/ Len(timers) + 2 <= MaxTimers /\ ResponseOk /\ FormStep
    \/ Len(timers) + 2 <= MaxTimers /\ ResponseNotOk /\ FormStep
    \/ Len(timers) + 2 <= MaxTimers /\ ResponseException /\ FormStep
    \/ (\E u \in UrlParams : NativeNavigate(u)) /\ FormStep
    \/ Reload /\ FormStep
    \/ Timers

Init ==
    /\ \E v \in {"modal", "banner"} : InitWith(v, {NoParams})
    /\ FormOnly

Spec == Init /\ [][Next]_vars

----------------------------------------------------------------------------
(* The notifications: the page loaded with any query, a user who fills the  *)
(* form from top to bottom with valid values, rewrites the message,         *)
(* submits, and closes the modals                                           *)

formFields ==
    <<"firstName", "lastName", "company", "email", "country", "phone", "message">>

GoodValue(n) ==
    IF n = "email" THEN EmailGood
    ELSE IF n = "phone" THEN PhoneGood
    ELSE IF n = "country" THEN CountryUS
    ELSE SomeText

\* the control the user fills next: the first empty one
NextControl(k) ==
    /\ \A j \in 1..(k - 1) : fields[formFields[j]] # Empty
    /\ fields[formFields[k]] = Empty

\* what happens on a page once it is loaded
NextPage ==
    \/ /\ \E k \in 1..Len(formFields) :
              NextControl(k) /\ InputEvent(formFields[k], GoodValue(formFields[k]))
       /\ FormStep
    \/ /\ \E v \in {SomeText, MoreText} :
              /\ fields["message"] \notin {Empty, v}
              /\ InputEvent("message", v)
       /\ FormStep
    \/ /\ variant = "modal" /\ formIsValid(fields) => inflight < MaxInFlightNotify
       /\ SubmitEvent
       /\ FormStep
    \/ Len(timers) + 2 <= MaxTimersNotify /\ ResponseOk /\ FormStep
    \/ Len(timers) + 2 <= MaxTimersNotify /\ ResponseNotOk /\ FormStep
    \/ Len(timers) + 2 <= MaxTimersNotify /\ ResponseException /\ FormStep
    \/ Len(timers) + 1 <= MaxTimersNotify /\ CloseSuccess /\ FormStep
    \/ Len(timers) + 1 <= MaxTimersNotify /\ CloseError /\ FormStep
    \/ Timers

\* and the page being loaded anew: by the answer to a native submission, or
\* by the user
NextNotify ==
    \/ NextPage
    \/ (\E u \in UrlParams : NativeNavigate(u)) /\ FormStep
    \/ Reload /\ FormStep

InitNotify ==
    /\ \E v \in {"modal", "banner"} : InitWith(v, UrlParams)
    /\ FormOnly

SpecNotify == InitNotify /\ [][NextNotify]_vars

\* a callback of this kind is pending
Pending(kind) == \E i \in 1..Len(timers) : timers[i] = kind

\* the event loop runs every callback: the one that is due is run, and no
\* callback stays pending for ever
TimersFire ==
    /\ WF_vars(Timers)
    /\ []<>(~Pending("dismissSuccess")) \/ []<><<TimerDismissSuccess /\ FormStep>>_vars
    /\ []<>(~Pending("dismissError")) \/ []<><<TimerDismissError /\ FormStep>>_vars
    /\ []<>(~Pending("urlSuccess")) \/ []<><<TimerUrlSuccess /\ FormStep>>_vars
    /\ []<>(~Pending("urlError")) \/ []<><<TimerUrlError /\ FormStep>>_vars
    /\ []<>(~Pending("hideSuccess")) \/ []<><<TimerHideSuccess /\ FormStep>>_vars
    /\ []<>(~Pending("hideError")) \/ []<><<TimerHideError /\ FormStep>>_vars

\* one page, from its load until it is left
SpecDismiss == InitNotify /\ [][NextPage]_vars /\ TimersFire

\* a request resolves: the await of fetch returns or throws
Resolves ==
    \/ ResponseOk /\ FormStep
    \/ ResponseNotOk /\ FormStep
    \/ ResponseException /\ FormStep

\* the network resolves every request: requests do not stay in flight for
\* ever without one of them resolving
RequestsResolve == []<>(inflight = 0) \/ []<><<Resolves>>_vars

\* one page, its callbacks firing and its requests resolving
SpecResolve == InitNotify /\ [][NextPage]_vars /\ TimersFire /\ RequestsResolve

----------------------------------------------------------------------------
(* The validators on their own: one call of isValidPhoneNumber or of        *)
(* isValidEmail with arguments drawn from the sets below, on a page that    *)
(* has just been loaded                                                     *)

\* a run of n digits
DigitRun(n) == [k \in 1..n |-> IF k % 2 = 1 THEN "7" ELSE "0"]

\* how a phone value starts, and what comes between its two runs of digits
PhoneHeads ==
    {<<>>, <<"+">>, <<"+", "+">>, <<" ", "+">>, <<"(", "+">>, <<"+", " ", "+">>,
     <<"x">>, <<" ">>}
PhoneInfixes == {<<>>, <<"-">>, <<")", " ">>, <<"+">>, <<"x">>}

PhoneValues ==
    { h \o DigitRun(a) \o i \o DigitRun(b) :
        h \in PhoneHeads, i \in PhoneInfixes,
        a \in 0..MaxDigitRun, b \in 0..MaxDigitRun }

\* the second argument: nothing, a country code (what the form passes), a
\* dialling prefix (what it is named after), and shapes of no country
PhoneHints ==
    {Empty, CountryUS, CallingCode, <<"+">>, <<"+", "+", "1">>, <<"1">>}

EmailChars == {"a", "@", ".", " "}

\* every string of EmailChars up to MaxEmailLen characters
EmailValues ==
    UNION { [1..n -> EmailChars] : n \in 0..MaxEmailLen }

PhoneCall(v, h) ==
    [fn |-> "isValidPhoneNumber", value |-> v, hint |-> h, done |-> FALSE,
     result |-> FALSE]

EmailCall(v) ==
    [fn |-> "isValidEmail", value |-> v, hint |-> Empty, done |-> FALSE,
     result |-> FALSE]

CallIsValidPhoneNumber ==
    /\ call.fn = "isValidPhoneNumber"
    /\ ~call.done
    /\ call' = [call EXCEPT !.done = TRUE,
                            !.result = isValidPhoneNumber(call.value, call.hint)]
    /\ UNCHANGED <<formVars, articleVars>>

CallIsValidEmail ==
    /\ call.fn = "isValidEmail"
    /\ ~call.done
    /\ call' = [call EXCEPT !.done = TRUE,
                            !.result = isValidEmail(call.value)]
    /\ UNCHANGED <<formVars, articleVars>>

NextValidators ==
    \/ CallIsValidPhoneNumber
    \/ CallIsValidEmail

InitValidators ==
    /\ InitWith("modal", {NoParams})
    /\ NoArticle
    /\ \/ \E v \in PhoneValues, h \in PhoneHints : call = PhoneCall(v, h)
       \/ \E v \in EmailValues : call = EmailCall(v)

SpecValidators == InitValidators /\ [][NextValidators]_vars

----------------------------------------------------------------------------
(* The article post-processor: documents                                    *)
(*                                                                          *)
(* An HTML string and a DOM are both sequences of nodes. In an HTML string  *)
(* the texts are escaped and the nodes have no identity (id = 0); in a DOM  *)
(* the texts are plain and the children of the body have identities. A      *)
(* node's class attribute is className, as the HTML source gave it or as    *)
(* the script assigned it, followed by the tokens of classList that the     *)
(* script added.                                                            *)

Node(tag, className, text, kids) ==
    [id |-> 0, tag |-> tag, className |-> className, classList |-> {},
     text |-> text, kids |-> kids]

TextNode(text) == Node("#text", <<>>, text, <<>>)

NewLine == <<"\n">>

LanguagePrefix == <<"l", "a", "n", "g", "u", "a", "g", "e", "-">>
Mermaid == <<"m", "e", "r", "m", "a", "i", "d">>
MermaidJs == <<"m", "e", "r", "m", "a", "i", "d", "-", "j", "s">>
Python == <<"p", "y", "t", "h", "o", "n">>

\* String.prototype.includes
Includes(s, sub) ==
    \E i \in 0..(Len(s) - Len(sub)) : SubSeq(s, i + 1, i + Len(sub)) = sub

\* the escaping of text in HTML, by marked and by innerHTML
EscapeHtml(t) ==
    [k \in 1..Len(t) |->
        IF t[k] = "<" THEN "&lt;"
        ELSE IF t[k] = ">" THEN "&gt;"
        ELSE IF t[k] = "&" THEN "&amp;"
        ELSE t[k]]

\* the HTML parser's reading of escaped text
UnescapeHtml(t) ==
    [k \in 1..Len(t) |->
        IF t[k] = "&lt;" THEN "<"
        ELSE IF t[k] = "&gt;" THEN ">"
        ELSE IF t[k] = "&amp;" THEN "&"
        ELSE t[k]]

RECURSIVE EscapeNode(_)
EscapeNode(n) ==
    [n EXCEPT !.id = 0,
              !.text = EscapeHtml(n.text),
              !.kids = [k \in 1..Len(n.kids) |-> EscapeNode(n.kids[k])]]

RECURSIVE UnescapeNode(_)
UnescapeNode(n) ==
    [n EXCEPT !.text = UnescapeHtml(n.text),
              !.kids = [k \in 1..Len(n.kids) |-> UnescapeNode(n.kids[k])]]

\* new JSDOM(html).window.document.body.childNodes
ParseDom(html) ==
    [k \in 1..Len(html) |-> [UnescapeNode(html[k]) EXCEPT !.id = k]]

\* document.body.innerHTML
InnerHtml(nodes) == [k \in 1..Len(nodes) |-> EscapeNode(nodes[k])]

----------------------------------------------------------------------------
(* The article post-processor: markdown                                     *)

MdBlock(kind, level, info, text, inner) ==
    [kind |-> kind, level |-> level, info |-> info, text |-> text,
     inner |-> inner]

Prose == <<"a", "<", "b">>
Diagram == <<"A", "-", "-", ">", "B", "\n", "B", "&", "C">>

Paragraph == MdBlock("paragraph", 0, <<>>, Prose, <<>>)
Heading(level) == MdBlock("heading", level, <<>>, Prose, <<>>)
Fence(info) == MdBlock("code", 0, info, Diagram, <<>>)
Quote(inner) == MdBlock("blockquote", 0, <<>>, <<>>, inner)

\* the blocks an article is made of
MdBlocks ==
    { Paragraph, Heading(2), Heading(3),
      Fence(Mermaid), Fence(Python), Fence(MermaidJs), Fence(<<>>),
      Quote(<<Heading(2), Fence(Mermaid)>>) }

\* the bodies of the entries: every sequence of up to MaxBlocks blocks
Bodies == UNION { [1..n -> MdBlocks] : n \in 0..MaxBlocks }

Entries ==
    { [hasBody |-> TRUE, body |-> b] : b \in Bodies } \cup {NoEntry}

\* entry.body || ""
BodyOrEmpty(e) == IF e.hasBody THEN e.body ELSE <<>>

RECURSIVE Flatten(_)
Flatten(ss) == IF ss = <<>> THEN <<>> ELSE Head(ss) \o Flatten(Tail(ss))

\* marked.parse(markdown, {gfm: true}): each block becomes its element,
\* followed by a line break
RECURSIVE MarkedBlock(_)
MarkedBlock(b) ==
    LET element ==
            IF b.kind = "paragraph" THEN Node("P", <<>>, EscapeHtml(b.text), <<>>)
            ELSE IF b.kind = "heading"
            THEN Node(IF b.level = 2 THEN "H2" ELSE "H3", <<>>,
                      EscapeHtml(b.text), <<>>)
            ELSE IF b.kind = "code"
            THEN Node("PRE", <<>>, <<>>,
                      << Node("CODE",
                              IF b.info = <<>> THEN <<>>
                              ELSE LanguagePrefix \o b.info,
                              EscapeHtml(b.text) \o NewLine, <<>>) >>)
            ELSE Node("BLOCKQUOTE", <<>>, <<>>,
                      <<TextNode(NewLine)>> \o
                      Flatten([k \in 1..Len(b.inner) |-> MarkedBlock(b.inner[k])]))
    IN  <<element, TextNode(NewLine)>>

MarkedParse(markdown) ==
    Flatten([k \in 1..Len(markdown) |-> MarkedBlock(markdown[k])])

----------------------------------------------------------------------------
(* The article post-processor: processMermaidDiagrams                       *)

\* codeBlock.className.includes('language-mermaid')
IsMermaid(codeBlock) == Includes(codeBlock.className, LanguagePrefix \o Mermaid)

\* document.createElement('div') with className and textContent assigned
MermaidDiv(codeBlock) == Node("DIV", Mermaid, codeBlock.text, <<>>)

\* the test comparing the class name with 'language-mermaid' for equality
RECURSIVE ReplaceMermaidExact(_)
ReplaceMermaidExact(n) ==
    IF /\ n.tag = "PRE"
       /\ n.kids # <<>>
       /\ n.kids[1].tag = "CODE"
       /\ n.kids[1].className = LanguagePrefix \o Mermaid
    THEN MermaidDiv(n.kids[1])
    ELSE [n EXCEPT !.kids = [k \in 1..Len(n.kids) |-> ReplaceMermaidExact(n.kids[k])]]

\* what the forEach over querySelectorAll('pre code') makes of node n and of
\* the nodes below it: a pre whose code child is a mermaid diagram is
\* replaced by the div, in its place
RECURSIVE ReplaceMermaid(_)
ReplaceMermaid(n) ==
    IF /\ n.tag = "PRE"
       /\ n.kids # <<>>
       /\ n.kids[1].tag = "CODE"
       /\ IsMermaid(n.kids[1])
    THEN MermaidDiv(n.kids[1])
    ELSE [n EXCEPT !.kids = [k \in 1..Len(n.kids) |-> ReplaceMermaid(n.kids[k])]]

processMermaidDiagrams(html) ==
    LET document == ParseDom(html)
    IN  InnerHtml([k \in 1..Len(document) |-> ReplaceMermaid(document[k])])

----------------------------------------------------------------------------
(* The article post-processor: processArticleContent                        *)

WrapperClass == "c9gi4"

\* dom.window.document.createElement("div") with classList.add("c9gi4")
Wrapper(id) ==
    [id |-> id, tag |-> "DIV", className |-> <<>>, classList |-> {WrapperClass},
     text |-> <<>>, kids |-> <<>>]

\* Array.from(body.children): the elements, not the text nodes
Children(nodes) == SelectSeq(nodes, LAMBDA n : n.tag # "#text")

Ids(nodes) == [k \in 1..Len(nodes) |-> nodes[k].id]

\* an identity no node of the body has: the new element's
FreshId(nodes) ==
    LET below == Flatten([k \in 1..Len(nodes) |-> nodes[k].kids])
        used == {0} \cup {nodes[k].id : k \in 1..Len(nodes)}
                    \cup {below[k].id : k \in 1..Len(below)}
    IN  1 + CHOOSE m \in used : \A i \in used : i <= m

Position(nodes, id) == CHOOSE k \in 1..Len(nodes) : nodes[k].id = id

\* body.insertBefore(node, the child with identity id)
InsertBefore(nodes, node, id) ==
    LET p == Position(nodes, id)
    IN  SubSeq(nodes, 1, p - 1) \o <<node>> \o SubSeq(nodes, p, Len(nodes))

\* wrapper.appendChild(the child of body with identity id): the element
\* leaves the body and becomes the wrapper's last child
AppendChild(nodes, wrapper, id) ==
    LET element == nodes[Position(nodes, id)]
        rest == SelectSeq(nodes, LAMBDA n : n.id # id)
    IN  [k \in 1..Len(rest) |->
            IF rest[k].id = wrapper
            THEN [rest[k] EXCEPT !.kids = Append(rest[k].kids, element)]
            ELSE rest[k]]

\* the class tokens added to the elements of each tag (the width and height
\* set on img and the list style set on ol are attributes no element of
\* MdBlocks carries)
ClassesOf(tag) ==
    IF tag = "H2" THEN {"cxmc9", "cg0ht", "cpynq", "crvmr"}
    ELSE IF tag = "H3" THEN {"cxmc9", "cg0ht", "cpynq", "cjvvo"}
    ELSE IF tag = "DIV" THEN {WrapperClass}
    ELSE IF tag = "STRONG" THEN {"cxmc9", "cg0ht", "cnp10"}
    ELSE IF tag = "A" THEN {"cm6cq", "chugl", "cnp10"}
    ELSE IF tag \in {"UL", "OL"} THEN {"c2czg", "c0c3z", "csndo"}
    ELSE IF tag = "IMG" THEN {"c8pgj"}
    ELSE IF tag = "TABLE" THEN {"tw-w-full", "tw-border-collapse", "tw-my-4"}
    ELSE IF tag = "TH"
    THEN {"tw-px-4", "tw-py-2", "tw-text-left", "tw-bg-gray-100", "tw-border",
          "tw-border-gray-200", "tw-font-semibold"}
    ELSE IF tag = "TD"
    THEN {"tw-px-4", "tw-py-2", "tw-border", "tw-border-gray-200"}
    ELSE {}

\* the querySelectorAll(...).forEach(classList.add) passes, on node n and on
\* the nodes below it
RECURSIVE Classify(_)
Classify(n) ==
    [n EXCEPT !.classList = n.classList \cup ClassesOf(n.tag),
              !.kids = [k \in 1..Len(n.kids) |-> Classify(n.kids[k])]]

ArticleStep == UNCHANGED <<formVars, call>>

\* htmlContent = await Promise.resolve(marked.parse(entry.body || "", ...))
ParseMarkdown ==
    /\ pc = "parse"
    /\ htmlContent' = MarkedParse(BodyOrEmpty(entry))
    /\ pc' = "extract"
    /\ UNCHANGED <<entry, body, allElements, currentWrapper, updatedHtml>>
    /\ ArticleStep

\* the extraction step left out: the rendered HTML goes on as it is
ExtractDiagramsSkipped ==
    /\ pc = "extract"
    /\ htmlContent' = htmlContent
    /\ pc' = "wrap"
    /\ UNCHANGED <<entry, body, allElements, currentWrapper, updatedHtml>>
    /\ ArticleStep

\* htmlContent = processMermaidDiagrams(htmlContent)
ExtractDiagrams ==
    /\ pc = "extract"
    /\ htmlContent' = processMermaidDiagrams(htmlContent)
    /\ pc' = "wrap"
    /\ UNCHANGED <<entry, body, allElements, currentWrapper, updatedHtml>>
    /\ ArticleStep

\* new JSDOM(htmlContent), allElements, and the first wrapper inserted before
\* body.firstChild
OpenFirstWrapper ==
    LET nodes == ParseDom(htmlContent)
        first == FreshId(nodes)
    IN  /\ pc = "wrap"
        /\ allElements' = Ids(Children(nodes))
        /\ currentWrapper' = first
        /\ body' = <<Wrapper(first)>> \o nodes
        /\ pc' = "loop"
        /\ UNCHANGED <<entry, htmlContent, updatedHtml>>
        /\ ArticleStep

\* the loop body moving every element, headings too, into the current
\* wrapper when that wrapper is still empty
SectionizeStepReuseEmpty ==
    LET id == Head(allElements)
        element == body[Position(body, id)]
        current == body[Position(body, currentWrapper)]
        fresh == FreshId(body)
    IN  /\ pc = "loop"
        /\ allElements # <<>>
        /\ IF element.tag = "H2" /\ current.kids # <<>>
           THEN /\ currentWrapper' = fresh
                /\ body' = AppendChild(InsertBefore(body, Wrapper(fresh), id),
                                       fresh, id)
           ELSE /\ currentWrapper' = currentWrapper
                /\ body' = AppendChild(body, currentWrapper, id)
        /\ allElements' = Tail(allElements)
        /\ UNCHANGED <<entry, pc, htmlContent, updatedHtml>>
        /\ ArticleStep

\* the loop body leaving the H2 where it is, after its new wrapper
SectionizeStepHeadingOutside ==
    LET id == Head(allElements)
        element == body[Position(body, id)]
        fresh == FreshId(body)
    IN  /\ pc = "loop"
        /\ allElements # <<>>
        /\ IF element.tag = "H2"
           THEN /\ currentWrapper' = fresh
                /\ body' = InsertBefore(body, Wrapper(fresh), id)
           ELSE /\ currentWrapper' = currentWrapper
                /\ body' = AppendChild(body, currentWrapper, id)
        /\ allElements' = Tail(allElements)
        /\ UNCHANGED <<entry, pc, htmlContent, updatedHtml>>
        /\ ArticleStep

\* for (const element of allElements): one turn of the loop
SectionizeStep ==
    LET id == Head(allElements)
        element == body[Position(body, id)]
        fresh == FreshId(body)
    IN  /\ pc = "loop"
        /\ allElements # <<>>
        /\ IF element.tag = "H2"
           THEN /\ currentWrapper' = fresh
                /\ body' = AppendChild(InsertBefore(body, Wrapper(fresh), id),
                                       fresh, id)
           ELSE /\ currentWrapper' = currentWrapper
                /\ body' = AppendChild(body, currentWrapper, id)
        /\ allElements' = Tail(allElements)
        /\ UNCHANGED <<entry, pc, htmlContent, updatedHtml>>
        /\ ArticleStep

\* the loop is over: the class passes, updatedHtml = body.innerHTML, and the
\* return
ClassifyAndReturn ==
    LET classified == [k \in 1..Len(body) |-> Classify(body[k])]
    IN  /\ pc = "loop"
        /\ allElements = <<>>
        /\ body' = classified
        /\ updatedHtml' = InnerHtml(classified)
        /\ pc' = "returned"
        /\ UNCHANGED <<entry, htmlContent, allElements, currentWrapper>>
        /\ ArticleStep

\* the catch block returning what had been rendered so far
CatchErrorPartial ==
    /\ pc \in {"parse", "extract", "wrap", "loop"}
    /\ updatedHtml' = htmlContent
    /\ pc' = "recovered"
    /\ UNCHANGED <<entry, htmlContent, body, allElements, currentWrapper>>
    /\ ArticleStep

\* a statement of the try block throws: catch (error), and the return
CatchError ==
    /\ pc \in {"parse", "extract", "wrap", "loop"}
    /\ updatedHtml' = BodyOrEmpty(entry)
    /\ pc' = "recovered"
    /\ UNCHANGED <<entry, htmlContent, body, allElements, currentWrapper>>
    /\ ArticleStep

NextArticle ==
    \/ ParseMarkdown
    \/ ExtractDiagrams
    \/ OpenFirstWrapper
    \/ SectionizeStep
    \/ ClassifyAndReturn
    \/ CatchError

InitArticle ==
    /\ InitWith("modal", {NoParams})
    /\ call = NoCall
    /\ entry \in Entries
    /\ pc = "parse"
    /\ htmlContent = <<>>
    /\ body = <<>>
    /\ allElements = <<>>
    /\ currentWrapper = 0
    /\ updatedHtml = <<>>

SpecArticle == InitArticle /\ [][NextArticle]_vars

----------------------------------------------------------------------------
(* Properties of the form, under Spec *)

\* C1: in every reachable state the submit control is enabled only if all
\* seven fields are non-empty after trimming, the email passes isValidEmail
\* and the phone passes isValidPhoneNumber.
C1_EnabledOnlyIfValid ==
    disabled = FALSE =>
        /\ \A n \in FieldNames : Trim(fields[n]) # <<>>
        /\ isValidEmail(fields["email"])
        /\ isValidPhoneNumber(fields["phone"], fields["country"])

\* C2: after a submission resolves with a 2xx response all seven fields are
\* empty and the submit control is disabled.
C2_SuccessLeavesEmptyAndDisabled ==
    lastOp = "responseOk" =>
        /\ \A n \in FieldNames : fields[n] = Empty
        /\ disabled = TRUE

\* C3: a submit event issues a request exactly when the fields, as they are
\* at that moment, pass the all-filled, email and phone checks; a blocked
\* submit event issues nothing, and the request carries the fields as they
\* are.
C3_SubmitRevalidates ==
    [][ /\ lastOp' = "submitSent" =>
              formIsValid(fields) /\ fields' = fields
        /\ lastOp' = "submitBlocked" =>
              ~formIsValid(fields) /\ inflight' = inflight
      ]_vars

C3_Witness ==
    lastOp = "submitSent" /\ inflight > 0 /\ formIsValid(fields)

\* C4: a failed submission, by a non-2xx response or by an exception, leaves
\* the submit control enabled, its label the original one, the error modal
\* displayed and every field as it was.
C4_FailureRestoresForm ==
    [][ lastOp' \in {"responseNotOk", "responseException"} =>
            /\ disabled' = FALSE
            /\ label' = OriginalButtonText
            /\ errorModal'.display = "flex"
            /\ fields' = fields
      ]_vars

C4_Witness ==
    /\ lastOp = "responseException"
    /\ disabled = FALSE
    /\ label = OriginalButtonText
    /\ errorModal.display = "flex"
    /\ formIsValid(fields)

\* C5: an input event while the label is "Sending..." restores the original
\* label in that handler, the pending request still being unresolved.
C5_InputRestoresLabel ==
    [][ (lastOp' = "input" /\ label = SendingText) =>
            (label' = OriginalButtonText /\ inflight' = inflight /\ inflight > 0)
      ]_vars

C5_Witness ==
    lastOp = "input" /\ inflight > 0 /\ label = OriginalButtonText

\* C6: while phoneFieldInteracted is false the phone error is hidden,
\* whatever the phone field holds.
C6_NoPhoneErrorBeforeInteraction ==
    ~phoneFieldInteracted => ~phoneErrorShown

C6_Witness ==
    /\ ~phoneFieldInteracted
    /\ lastOp = "geoSuccess"
    /\ fields["phone"] = CallingCode
    /\ ~isValidPhoneNumber(fields["phone"], fields["country"])
    /\ ~phoneErrorShown

\* C7: a failed geolocation lookup changes no field and no option, and leaves
\* the submit control disabled exactly when the fields as they are do not
\* pass the checks.
C7_GeoFailureSkipsPrefill ==
    [][ lastOp' = "geoFailure" =>
            /\ fields' = fields
            /\ options' = options
            /\ disabled' = ~formIsValid(fields)
      ]_vars

\* the lookup failed and the user, filling the form by hand, has the submit
\* control enabled
C7_Witness ==
    /\ geo = "rejected"
    /\ options = DefaultOptions
    /\ formIsValid(fields)
    /\ disabled = FALSE

\* C8: after a field event (input, change, blur) or the completion of the
\* geolocation lookup, the submit control is disabled exactly when the
\* fields as they now are do not pass the checks.
C8_ValidityFollowsFields ==
    lastOp \in {"input", "change", "blur", "geoSuccess", "geoFailure"} =>
        disabled = ~formIsValid(fields)

\* the lookup completes after the user has filled the form
C8_Witness ==
    /\ lastOp = "geoSuccess"
    /\ phoneFieldInteracted
    /\ formIsValid(fields)
    /\ disabled = FALSE

\* C9: once the page is loaded its URL holds neither success=true nor
\* error=true, so that a reload shows no notification.
C9_NoTriggerLeftInUrl ==
    ~(url.success \/ url.error)

----------------------------------------------------------------------------
(* Properties of the notifications, under SpecNotify *)

\* C10: hideSuccessModal (hideErrorModal) called a second time in a row
\* changes nothing: the modal is as the first call left it and no further
\* timer is scheduled.
C10_SecondHideChangesNothing ==
    [][ /\ (lastOp = "closeSuccess" /\ lastOp' = "closeSuccess") =>
              (successModal' = successModal /\ timers' = timers)
        /\ (lastOp = "closeError" /\ lastOp' = "closeError") =>
              (errorModal' = errorModal /\ timers' = timers)
      ]_vars

----------------------------------------------------------------------------
(* Properties of the validators, under SpecValidators *)

PhoneReturned == call.fn = "isValidPhoneNumber" /\ call.done
EmailReturned == call.fn = "isValidEmail" /\ call.done

SevenToFifteenDigits(s) ==
    /\ Len(s) >= 7
    /\ Len(s) <= 15
    /\ \A k \in 1..Len(s) : s[k] \in Digits

\* C11: for a value made only of digits, and any hint, isValidPhoneNumber
\* returns true when the value has 7 to 15 characters and false when it has
\* 6 or fewer, or 16 or more.
C11_DigitStringsByLength ==
    (PhoneReturned /\ \A k \in 1..Len(call.value) : call.value[k] \in Digits) =>
        /\ (Len(call.value) >= 7 /\ Len(call.value) <= 15) => call.result
        /\ (Len(call.value) <= 6 \/ Len(call.value) >= 16) => ~call.result

\* fifteen digits, the longest accepted, with a hint
C11_Witness ==
    /\ PhoneReturned
    /\ call.value = DigitRun(15)
    /\ call.hint = CallingCode
    /\ call.result

\* the value without its spaces, hyphens and parentheses
CleanedValue == RemoveChars(call.value, WhiteSpace \cup {"-", "(", ")"})

\* C12 as stated: when the cleaned value starts with "+", the result is true
\* exactly when what follows that one "+" is 7 to 15 digits; a value that
\* starts with two "+", or has a "+" after its first character, is rejected
\* whatever the hint.
C12_PlusInValueRejected ==
    PhoneReturned =>
        /\ StartsWithPlus(CleanedValue) =>
               (call.result <=> SevenToFifteenDigits(Tail(CleanedValue)))
        /\ (\E k \in 2..Len(call.value) : call.value[k] = "+") => ~call.result

\* C12, amended: the same, the second part read on the cleaned value: a
\* cleaned value that starts with two "+", or has a "+" after its first
\* character, is rejected whatever the hint.
C12_PlusInCleanedRejected ==
    PhoneReturned =>
        /\ StartsWithPlus(CleanedValue) =>
               (call.result <=> SevenToFifteenDigits(Tail(CleanedValue)))
        /\ (\E k \in 2..Len(CleanedValue) : CleanedValue[k] = "+") => ~call.result

\* two leading "+" before seven digits, with a hint: rejected
C12_Witness ==
    /\ PhoneReturned
    /\ call.value = <<"+", "+">> \o DigitRun(7)
    /\ call.hint = CallingCode
    /\ ~call.result

\* the value without its leading and trailing whitespace
EmailCore == Trim(call.value)

\* local@domain.tld: three non-empty parts without whitespace and without "@"
LocalAtDomainDotTld(s) ==
    \E i \in 2..Len(s), j \in 4..(Len(s) - 1) :
        /\ i + 1 < j
        /\ s[i] = "@"
        /\ s[j] = "."
        /\ \A k \in (1..Len(s)) \ {i} : s[k] \notin WhiteSpace \cup {"@"}

\* C13: isValidEmail returns false for a value without "@", without a "."
\* after the "@", or with whitespace inside it, and true for a value of the
\* form local@domain.tld; whitespace around the value does not count.
C13_EmailShape ==
    EmailReturned =>
        /\ (\A k \in 1..Len(call.value) : call.value[k] # "@") => ~call.result
        /\ ~(\E i, j \in 1..Len(call.value) :
                 i < j /\ call.value[i] = "@" /\ call.value[j] = ".") => ~call.result
        /\ (\E k \in 1..Len(EmailCore) : EmailCore[k] \in WhiteSpace) => ~call.result
        /\ LocalAtDomainDotTld(EmailCore) => call.result

\* a well-formed address after a leading space: accepted
C13_Witness ==
    /\ EmailReturned
    /\ call.value = <<" ", "a", "@", "a", ".", "a">>
    /\ call.result

----------------------------------------------------------------------------
(* Properties of the article post-processor, under SpecArticle *)

IsWrapper(n) == n.tag = "DIV" /\ WrapperClass \in n.classList /\ n.className = <<>>

CountOf(nodes, tag) == Cardinality({k \in 1..Len(nodes) : nodes[k].tag = tag})

\* C14: a run that returns normally yields exactly k + 1 section wrappers at
\* the top level, k being the number of H2 elements at the top level of the
\* rendered body.
C14_OneWrapperMoreThanH2 ==
    pc = "returned" =>
        Cardinality({k \in 1..Len(updatedHtml) : IsWrapper(updatedHtml[k])})
            = CountOf(htmlContent, "H2") + 1

\* two H2 at the top level, the first with nothing before it: three wrappers
C14_Witness ==
    /\ pc = "returned"
    /\ entry.hasBody
    /\ entry.body = <<Heading(2), Paragraph, Heading(2)>>
    /\ Len(Children(updatedHtml)) = 3
    /\ \A k \in 1..3 : IsWrapper(Children(updatedHtml)[k])

\* the loop of processArticleContent has ended
Sectionized == pc = "loop" /\ allElements = <<>>

\* C15: when the loop has ended the elements of the body are the wrappers;
\* their children, read in order, are the elements the body had, each one
\* once and in the original order; the first wrapper holds no H2; every
\* other wrapper has an H2 as its first child and no other H2 child.
C15_SectionsPartitionTheBody ==
    Sectionized =>
        LET wrappers == Children(body)
            original == Children(ParseDom(htmlContent))
        IN  /\ \A j \in 1..Len(wrappers) : IsWrapper(wrappers[j])
            /\ Flatten([j \in 1..Len(wrappers) |-> wrappers[j].kids]) = original
            /\ wrappers # <<>>
            /\ CountOf(wrappers[1].kids, "H2") = 0
            /\ \A j \in 2..Len(wrappers) :
                   /\ wrappers[j].kids # <<>>
                   /\ wrappers[j].kids[1].tag = "H2"
                   /\ CountOf(wrappers[j].kids, "H2") = 1

\* content before the first H2, and content after it
C15_Witness ==
    /\ Sectionized
    /\ entry.hasBody
    /\ entry.body = <<Paragraph, Heading(2), Fence(Python)>>
    /\ Len(Children(body)) = 2
    /\ Len(Children(body)[1].kids) = 1
    /\ Len(Children(body)[2].kids) = 2

\* C16: when a statement of the try block has thrown, the function returns
\* the entry's body as it was given, or the empty string when the entry has
\* no body.
C16_FallbackIsOriginalBody ==
    pc = "recovered" =>
        /\ entry.hasBody => updatedHtml = entry.body
        /\ ~entry.hasBody => updatedHtml = <<>>

\* the throw came in the loop, with a body rendered and partly sectioned
C16_Witness ==
    /\ pc = "recovered"
    /\ entry.hasBody
    /\ entry.body # <<>>
    /\ htmlContent # <<>>
    /\ body # <<>>
    /\ updatedHtml = entry.body

\* node b is what the extraction made of node a, as C17 has it
RECURSIVE ExtractedAsClaimed(_, _)
ExtractedAsClaimed(a, b) ==
    IF a.tag = "PRE" /\ a.kids # <<>> /\ a.kids[1].tag = "CODE"
    THEN IF a.kids[1].className = LanguagePrefix \o Mermaid
         THEN /\ b.tag = "DIV"
              /\ b.className = Mermaid
              /\ b.text = a.kids[1].text
              /\ b.kids = <<>>
         ELSE b = a
    ELSE /\ b.tag = a.tag
         /\ b.className = a.className
         /\ b.text = a.text
         /\ Len(b.kids) = Len(a.kids)
         /\ \A k \in 1..Len(a.kids) : ExtractedAsClaimed(a.kids[k], b.kids[k])

\* C17: diagram extraction replaces every pre/code block whose code element
\* has the class language-mermaid by a div of class mermaid holding the
\* block's text, and leaves every other node, the other code blocks
\* included, in its place and as it was.
C17_OnlyMermaidBlocksReplaced ==
    [][ (pc = "extract" /\ pc' = "wrap") =>
            /\ Len(htmlContent') = Len(htmlContent)
            /\ \A k \in 1..Len(htmlContent) :
                   ExtractedAsClaimed(ParseDom(htmlContent)[k],
                                      ParseDom(htmlContent')[k])
      ]_vars

----------------------------------------------------------------------------
(* Properties of submission and of the notifications' timing, under         *)
(* SpecNotify and SpecDismiss                                               *)

\* C18: a request is issued in the handler of a submit event only, one per
\* event at most: no other handler adds a request, and the handler of a
\* failed response or of an exception leaves one request fewer outstanding.
C18_RequestsOnlyOnSubmit ==
    [][ /\ lastOp' # "submitSent" => inflight' <= inflight
        /\ lastOp' = "submitSent" =>
              inflight' = (IF variant = "banner" THEN 1 ELSE inflight + 1)
        /\ lastOp' \in {"responseNotOk", "responseException"} =>
              inflight' = inflight - 1
      ]_vars

\* a submission failed, and the submit event that follows sends again
C18_Witness ==
    /\ lastOp = "submitSent"
    /\ inflight = 1
    /\ errorModal.display = "flex"
    /\ label = SendingText

SuccessTimers == {"dismissSuccess", "urlSuccess"}
ErrorTimers == {"dismissError", "urlError"}

\* C19: the success notification is dismissed after 3000 ms and the error
\* notification after 5000 ms, on every path; of the two callbacks set by
\* one page load the success one fires first.
C19_SuccessDismissedSooner ==
    /\ \A k \in SuccessTimers : Delay(k) = 3000
    /\ \A k \in ErrorTimers : Delay(k) = 5000
    /\ \A i, j \in 1..Len(timers) :
           (timers[i] = "urlSuccess" /\ timers[j] = "urlError") => i < j

\* the page loaded with both parameters: both modals shown, both callbacks
\* pending
C19_Witness ==
    /\ variant = "modal"
    /\ successModal.display = "flex"
    /\ errorModal.display = "flex"
    /\ \E i, j \in 1..Len(timers) :
           timers[i] = "urlSuccess" /\ timers[j] = "urlError"

\* C20: a notification that is displayed is taken off the page in the end,
\* pending timers firing, whatever the user does or does not do.
C20_ShownIsEventuallyHidden ==
    /\ (successModal.display = "flex") ~> (successModal.display = "none")
    /\ (errorModal.display = "flex") ~> (errorModal.display = "none")
    /\ bannerShown ~> ~bannerShown

\* the success modal shown by a 2xx response has been dismissed by its timers
C20_Witness ==
    /\ variant = "modal"
    /\ ~url.success
    /\ lastOp = "timer"
    /\ successModal = HiddenModal
    /\ fields = DefaultFields
    /\ disabled = FALSE
    /\ timers = <<>>

----------------------------------------------------------------------------
(* Properties of concurrent handlers: requests, the prefill and the timers  *)

\* C21: in the modal variant at most one submission request is in flight at
\* any time, whatever the user edits and submits before the request resolves.
C21_AtMostOneInFlight ==
    variant = "modal" => inflight <= 1

\* C22: the prefill only populates: a phone value or a country that the user
\* has entered before the lookup succeeds is the same after the handler.
C22_PrefillKeepsUserValues ==
    [][ lastOp' = "geoSuccess" =>
            /\ fields["phone"] # Empty => fields'["phone"] = fields["phone"]
            /\ fields["country"] # Empty => fields'["country"] = fields["country"]
      ]_vars

\* C23: on a page loaded with success=true, the form reset made by the
\* 3-second callback leaves every field as the user, or the prefill, has set
\* it since the load.
C23_ResetKeepsTypedValues ==
    [][ (Due("urlSuccess") /\ lastOp' = "timer") => fields' = fields ]_vars

\* a callback of this kind is pending behind the one that is due
PendingBehind(kind) == \E i \in 2..Len(timers) : timers[i] = kind

\* the modal is on the page, faded in, and no hide of it is under way
FullyShown(m, hideKind) == m.display = "flex" /\ m.opaque /\ ~Pending(hideKind)

\* C24: in the modal variant a callback set for an earlier showing of a modal
\* never hides a later showing of it. Each showing after a response sets one
\* auto-dismiss callback, so when one is due and another is pending behind
\* it, the one due belongs to an earlier showing: it leaves the modal, fully
\* shown and not closed by the user, as it is.
C24_StaleTimerSparesLaterShowing ==
    [][ /\ ( /\ lastOp' = "timer"
             /\ Due("dismissError")
             /\ PendingBehind("dismissError")
             /\ FullyShown(errorModal, "hideError") ) => errorModal' = errorModal
        /\ ( /\ lastOp' = "timer"
             /\ Due("dismissSuccess")
             /\ PendingBehind("dismissSuccess")
             /\ FullyShown(successModal, "hideSuccess") ) => successModal' = successModal
      ]_vars

----------------------------------------------------------------------------
(* The country hint of the phone test, under SpecValidators *)

\* the cleaned value without its leading "+", if it has one
CleanedSansPlus ==
    IF StartsWithPlus(CleanedValue) THEN Tail(CleanedValue) ELSE CleanedValue

\* the call went past the "+" branch and the digits branch
HintBranchReached ==
    /\ PhoneReturned
    /\ ~StartsWithPlus(CleanedValue)
    /\ ~(CleanedValue # <<>> /\ AllDigits(CleanedValue))

\* C25: the result of isValidPhoneNumber does not depend on the hint: the
\* same value gets the same result with every other hint; the hint branch
\* never returns true; and the result is true exactly when the cleaned value,
\* with at most one leading "+" removed, is 7 to 15 digits.
C25_HintIndependent ==
    PhoneReturned =>
        /\ \A h \in PhoneHints :
               isValidPhoneNumber(call.value, h) = call.result
        /\ HintBranchReached => ~call.result
        /\ call.result <=> SevenToFifteenDigits(CleanedSansPlus)

\* the hint branch taken with a dialling prefix as the hint and a cleaned
\* value of 8 characters: the concatenation is tested and rejected
C25_Witness ==
    /\ HintBranchReached
    /\ call.hint = CallingCode
    /\ call.value = <<"x">> \o DigitRun(7)
    /\ ~call.result

----------------------------------------------------------------------------
(* The inline error messages and the prefill, under Spec *)

\* C26: after every handler the phone error is visible exactly when the
\* phone field is non-empty, fails the phone test and has been interacted
\* with; so it is visible right after the first input event on the phone
\* field that leaves a non-empty invalid value, with no focus event before.
C26_PhoneErrorFollowsFields ==
    phoneErrorShown <=>
        /\ Trim(fields["phone"]) # <<>>
        /\ ~isValidPhoneNumber(Trim(fields["phone"]), Trim(fields["country"]))
        /\ phoneFieldInteracted

\* C27: after every handler the email error is visible exactly when the
\* trimmed email field is non-empty and fails the email test; an empty email
\* field never shows it.
C27_EmailErrorFollowsField ==
    /\ emailErrorShown <=>
           (Trim(fields["email"]) # <<>> /\ ~isValidEmail(fields["email"]))
    /\ Trim(fields["email"]) = <<>> => ~emailErrorShown

\* the lookup completes while an invalid email is in the field: the error
\* stays visible
C27_Witness ==
    /\ lastOp = "geoSuccess"
    /\ fields["email"] = EmailBad
    /\ emailErrorShown

\* how many options of the select have value c
OptionCount(opts, c) == Cardinality({k \in 1..Len(opts) : opts[k] = c})

\* C28: the lookup succeeding with country code c and calling code p leaves
\* the select's value c, c exactly once among the options (appended only if
\* it was missing), the phone field p and the submit control's disabled state
\* recomputed from the new values; a response without one of the two fields
\* fills the other one only; the other five fields are left alone.
C28_PrefillSetsCountryAndPhone ==
    [][ \A data \in GeoResponses : GeoSuccess(data) =>
            LET c == data.country_code
                p == data.country_calling_code
            IN  /\ c # Empty =>
                    /\ fields'["country"] = c
                    /\ OptionCount(options', c) = 1
                    /\ options' = IF OptionCount(options, c) = 0
                                  THEN Append(options, c) ELSE options
                /\ c = Empty =>
                    /\ fields'["country"] = fields["country"]
                    /\ options' = options
                /\ p # Empty => fields'["phone"] = p
                /\ p = Empty => fields'["phone"] = fields["phone"]
                /\ \A n \in FieldNames \ {"country", "phone"} :
                       fields'[n] = fields[n]
                /\ disabled' = ~formIsValid(fields')
      ]_vars

\* both fields filled from the response, the country appended as a new option
C28_Witness ==
    /\ lastOp = "geoSuccess"
    /\ fields["country"] = CountryKE
    /\ fields["phone"] = CallingCode
    /\ options = <<Empty, CountryUS, CountryKE>>

----------------------------------------------------------------------------
(* The label of the submit control, under SpecResolve *)

ResponseOps == {"responseOk", "responseNotOk", "responseException"}

\* C29: in the modal variant the label is the original one after a request
\* has resolved, whatever the outcome; the label is "Sending..." only while
\* a request is in flight; and, every request resolving in the end, the label
\* "Sending..." does not stay for ever.
C29_SendingLabelGoesAway ==
    /\ [][ lastOp' \in ResponseOps => label' = OriginalButtonText ]_vars
    /\ []((variant = "modal" /\ label = SendingText) => inflight >= 1)
    /\ (variant = "modal" /\ label = SendingText) ~> (label # SendingText)

\* one of two requests has resolved: the label is the original one while the
\* other request is still in flight
C29_Witness ==
    /\ variant = "modal"
    /\ lastOp = "responseNotOk"
    /\ inflight = 1
    /\ label = OriginalButtonText

----------------------------------------------------------------------------
(* The order of the passes of the article post-processor, under SpecArticle *)

\* the children of the wrappers of an HTML string, read in order
Placed(html) ==
    LET wrappers == Children(html)
    IN  Flatten([j \in 1..Len(wrappers) |-> wrappers[j].kids])

\* C30: on a run that returns normally the extraction is over before the
\* sectioning starts: nothing of the body is built while the diagrams are
\* still to be extracted, and the sectioning works on the extracted HTML. So
\* every element at the top level of the result is a section wrapper, and
\* each mermaid block at the top level of the entry's body is a div of class
\* mermaid holding the diagram, inside a wrapper, at the position its code
\* block had among the elements.
C30_DiagramsExtractedThenSectioned ==
    /\ pc \in {"parse", "extract"} => (body = <<>> /\ allElements = <<>>)
    /\ pc \in {"wrap", "loop", "returned"} =>
           htmlContent = processMermaidDiagrams(MarkedParse(BodyOrEmpty(entry)))
    /\ pc = "returned" =>
           LET blocks == BodyOrEmpty(entry)
               placed == Placed(updatedHtml)
           IN  /\ \A j \in 1..Len(Children(updatedHtml)) :
                      IsWrapper(Children(updatedHtml)[j])
               /\ Len(placed) = Len(blocks)
               /\ \A k \in 1..Len(blocks) :
                      blocks[k] = Fence(Mermaid) =>
                          /\ placed[k].tag = "DIV"
                          /\ placed[k].className = Mermaid
                          /\ placed[k].text = EscapeHtml(Diagram \o NewLine)
                          /\ placed[k].kids = <<>>

\* a diagram between a heading and a paragraph: it is the second child of
\* the heading's wrapper
C30_Witness ==
    /\ pc = "returned"
    /\ entry.hasBody
    /\ entry.body = <<Heading(2), Fence(Mermaid), Paragraph>>
    /\ Len(Children(updatedHtml)) = 2
    /\ Len(Children(updatedHtml)[2].kids) = 3
    /\ Children(updatedHtml)[2].kids[2].tag = "DIV"
    /\ Children(updatedHtml)[2].kids[2].className = Mermaid

====
